---- MODULE Spec2Model ----
(***************************************************************************)
(* GeoSlide: the /api/v1/predict handler of backend/server.py, the         *)
(* inference pipeline and decision logic of backend/src/inference_engine.py*)
(* and its batch benchmark.                                                *)
(*                                                                         *)
(* Units.  Coordinates are in thousandths of a degree (30.8 is 30800).     *)
(* The clock is in tenths of a second (time.sleep(0.4) is 4 ticks), so     *)
(* int(time.time()) is now \div 10.  A confidence is kept as the integer   *)
(* confidence * RandSteps, precision/accuracy/f1 as hundredths.  Benchmark *)
(* metrics are kept as the integer metric * 1000 * BenchSteps.             *)
(***************************************************************************)
EXTENDS Integers, Sequences, FiniteSets, TLC

VARIABLES
    \* ---- server.py / run_inference_pipeline ----
    now,          \* time.time(), in tenths of a second
    pc,           \* position of the request handler
    req,          \* the JSON body of the request being handled
    lat, lon,     \* server.py:52-53, the values data.get() returned
    start_time,   \* inference_engine.py:62
    is_expert,    \* inference_engine.py:74
    is_desert,    \* inference_engine.py:76
    metrics,      \* inference_engine.py:82
    trace,        \* the stages (and the evaluation) entered for this request
    raised,       \* the stage that raised, "none" otherwise
    result,       \* the dict run_inference_pipeline returned, NoResult before
    response,     \* the HTTP response of the request, code 0 while there is none
    mask_ids,     \* the mask_id of every InferenceResult returned so far, in order
    served,       \* the number of requests received so far
    \* ---- run_batch_benchmark ----
    bpc,          \* position of the benchmark: "idle", "delay", "compute", "done"
    i,            \* the loop index of enumerate(test_set)
    process_time, \* inference_engine.py:122, seconds * 1000 * BenchSteps
    results,      \* inference_engine.py:117, id/lat/lon/severity of each entry
    last,         \* the entry the latest step appended (geo and base included),
                  \* NoSample when the latest step appended none
    \* ---- run_inference_pipeline on several threads of the server ----
    cpc,          \* per thread: "idle", "running", "returned"
    cpoint,       \* per thread: the lat and lon of its call
    cstart,       \* per thread: start_time
    cstep,        \* per thread: the time.sleep of the call it is in (1, 2, ...)
    cwake,        \* per thread: the time at which that sleep is over
    cresult       \* per thread: the dict returned, NoResult before

vars == <<now, pc, req, lat, lon, start_time, is_expert, is_desert, metrics,
          trace, raised, result, response, mask_ids, served, bpc, i, process_time,
          results, last, cpc, cpoint, cstart, cstep, cwake, cresult>>

srvVars == <<now, pc, req, lat, lon, start_time, is_expert, is_desert, metrics,
             trace, raised, result, response, mask_ids, served>>

benchVars == <<bpc, i, process_time, results, last>>

concVars == <<cpc, cpoint, cstart, cstep, cwake, cresult>>

(***************************************************************************)
(* Bounds of the model.                                                    *)
(***************************************************************************)
\* random.random() is drawn from the grid k / RandSteps, k \in 0..RandSteps.
RandSteps == 4
\* numpy.random.uniform(lo, hi) is drawn from lo + k * (hi - lo) / BenchSteps.
BenchSteps == 2
\* time.sleep(d) returns after d + e ticks, e \in 0..MaxLag.
MaxLag == 1
\* Requests served one after another in SpecSeq.
MaxRequests == 2

(***************************************************************************)
(* Python values of the JSON body.                                         *)
(***************************************************************************)
None == [kind |-> "none", val |-> 0]
Num(n) == [kind |-> "num", val |-> n]
Str == [kind |-> "str", val |-> 0]          \* a non-empty string, e.g. "30.4"
Absent == [kind |-> "absent", val |-> 0]    \* the key is not in the object
Null == [kind |-> "null", val |-> 0]        \* JSON null

\* dict.get(key): None when the key is absent; JSON null is loaded as None.
DictGet(field) ==
    IF field.kind \in {"absent", "null"} THEN None ELSE field

\* Python truth value: None, 0 and 0.0 are false; a non-empty string is true.
Truthy(v) ==
    CASE v.kind = "none" -> FALSE
      [] v.kind = "num"  -> v.val # 0
      [] OTHER           -> TRUE

\* format(v, ".4f") raises ValueError for a str.
FormatsAsFloat(v) == v.kind = "num"

\* server.py:57, the condition of the 400 branch
MissingCoordinatesAnd(la, lo) == (~Truthy(la)) /\ (~Truthy(lo))
MissingCoordinates(la, lo) == (~Truthy(la)) \/ (~Truthy(lo))

(***************************************************************************)
(* Zones and the containment tests.                                        *)
(***************************************************************************)
ZONES ==
    [CHAMOLI   |-> [min_lat |-> 30000, max_lat |-> 30800,
                    min_lon |-> 78800, max_lon |-> 79800],
     JAISALMER |-> [min_lat |-> 26000, max_lat |-> 28000,
                    min_lon |-> 70000, max_lon |-> 72000]]

InZoneStrict(z, la, lo) ==
    /\ z.min_lat < la /\ la < z.max_lat
    /\ z.min_lon < lo /\ lo < z.max_lon

InZoneEither(z, la, lo) ==
    \/ z.min_lat <= la /\ la <= z.max_lat
    \/ z.min_lon <= lo /\ lo <= z.max_lon

\* min_lat <= lat <= max_lat and min_lon <= lon <= max_lon
InZone(z, la, lo) ==
    /\ z.min_lat <= la /\ la <= z.max_lat
    /\ z.min_lon <= lo /\ lo <= z.max_lon

(***************************************************************************)
(* _calculate_metrics                                                      *)
(***************************************************************************)
Draws == 0..RandSteps

SuppressedMetricsDrawn ==
    [confidence |-> 45 * RandSteps, severity |-> "LOW",
     precision |-> 0, accuracy |-> 0, f1_score |-> 0,
     status |-> "UNVERIFIED_DETECTION"]

SuppressedMetrics ==
    [confidence |-> 0, severity |-> "SAFE",
     precision |-> 0, accuracy |-> 0, f1_score |-> 0,
     status |-> "NO_ANOMALY"]

ValidatedMetricsWide(k) ==
    [confidence |-> 88 * RandSteps + k * 6, severity |-> "HIGH",
     precision |-> 85, accuracy |-> 89, f1_score |-> 83,
     status |-> "VALIDATED_DETECTION"]

\* 88.0 + random.random() * 5, with random.random() = k / RandSteps
ValidatedMetrics(k) ==
    [confidence |-> 88 * RandSteps + k * 5, severity |-> "HIGH",
     precision |-> 85, accuracy |-> 89, f1_score |-> 83,
     status |-> "VALIDATED_DETECTION"]

UnverifiedMetricsGeq(k) ==
    LET conf == 45 * RandSteps + k * 20
        sev == IF conf >= 60 * RandSteps THEN "MEDIUM" ELSE "LOW"
    IN [confidence |-> conf, severity |-> sev,
        precision |-> 0, accuracy |-> 0, f1_score |-> 0,
        status |-> "UNVERIFIED_DETECTION"]

\* conf = 45.0 + random.random() * 20; "MEDIUM" if conf > 60 else "LOW"
UnverifiedMetrics(k) ==
    LET conf == 45 * RandSteps + k * 20
        sev == IF conf > 60 * RandSteps THEN "MEDIUM" ELSE "LOW"
    IN [confidence |-> conf, severity |-> sev,
        precision |-> 0, accuracy |-> 0, f1_score |-> 0,
        status |-> "UNVERIFIED_DETECTION"]

\* the if / elif / else of _calculate_metrics; k is the random draw
CalculateMetrics(expert, desert, k) ==
    IF desert THEN SuppressedMetrics
    ELSE IF expert THEN ValidatedMetrics(k)
    ELSE UnverifiedMetrics(k)

NoMetrics ==
    [confidence |-> 0, severity |-> "-", precision |-> 0, accuracy |-> 0,
     f1_score |-> 0, status |-> "-"]

(***************************************************************************)
(* The clock and the simulated stage delays.                               *)
(***************************************************************************)
FetchSleep == 4
CorrectSleep == 3
SlicSleep == 8
RagSleep == 4
MergeSleep == 3
FeatSleep == 5
ForestSleep == 5
ShapefileSleep == 2

\* the clock values at which time.sleep(d) may return
AfterSleep(t, d) == {t + d + e : e \in 0..MaxLag}

MaskIdCoarse(t) == <<"mask_", t \div 100>>

\* f"mask_{int(time.time())}"
MaskId(t) == <<"mask_", t \div 10>>

(***************************************************************************)
(* Responses of predict_hazard.                                            *)
(***************************************************************************)
NoResponse == [code |-> 0, body |-> [error |-> "-"]]

MissingResponse == [code |-> 400, body |-> [error |-> "Missing coordinates"]]

ErrorResponseLeaky(stage) ==
    [code |-> 500, body |-> [error |-> "Internal Server Error", stage |-> stage]]

\* the except branch, server.py:72-74
ErrorResponse(stage) ==
    [code |-> 500, body |-> [error |-> "Internal Server Error"]]

\* server.py:67-70
SuccessResponse(data) ==
    [code |-> 200, body |-> [status |-> "success", data |-> data]]

\* the dict of inference_engine.py:87-92
InferenceResult(m, elapsed, id) ==
    [confidence |-> m.confidence, metrics |-> m,
     processing_time |-> elapsed, mask_id |-> id]

NoResult == InferenceResult(NoMetrics, 0, <<"-", 0>>)

(***************************************************************************)
(* The requests.                                                           *)
(***************************************************************************)
LatNumbers == {-90001, -90000, 0, 25999, 26000, 27000, 28000, 28001,
               29999, 30000, 30400, 30800, 30801, 90000, 90001}
LonNumbers == {-180001, -180000, 0, 69999, 70000, 71000, 72000, 72001,
               78799, 78800, 79300, 79800, 79801, 180000, 180001}

LatFields == {Num(n) : n \in LatNumbers} \cup {Absent, Null, Str}
LonFields == {Num(n) : n \in LonNumbers} \cup {Absent, Null, Str}

\* A JSON object with (or without) lat and lon, or a body that is no object
\* (JSON null, a list, a number), on which data.get raises AttributeError.
Requests ==
    [json : {"object"}, lat : LatFields, lon : LonFields]
        \cup {[json |-> "other", lat |-> Absent, lon |-> Absent]}

\* one request per outcome of the handler, for the runs of several requests
SeqRequests ==
    {[json |-> "object", lat |-> Num(30400), lon |-> Num(79300)],
     [json |-> "object", lat |-> Num(27000), lon |-> Num(71000)],
     [json |-> "object", lat |-> Num(0), lon |-> Num(71000)],
     [json |-> "object", lat |-> Num(90001), lon |-> Num(79300)],
     [json |-> "object", lat |-> Str, lon |-> Num(79300)]}

\* the points of the direct calls in the runs of several requests
SeqCalls == {<<0, 0>>, <<30000, 78800>>}

NoRequest == [json |-> "-", lat |-> Absent, lon |-> Absent]

(***************************************************************************)
(* run_batch_benchmark, inference_engine.py:97-155                         *)
(*                                                                         *)
(* Metrics are integers: metric * 1000 * BenchSteps.  The benchmark only   *)
(* sleeps and never reads the clock, so its delay is kept in process_time  *)
(* and `now` is left alone.                                                *)
(***************************************************************************)
test_set ==
    << [lat |-> 30420, lon |-> 79320, sev |-> "MEDIUM", diff |-> 0],
       [lat |-> 30405, lon |-> 79305, sev |-> "HIGH",   diff |-> 30],
       [lat |-> 30450, lon |-> 79350, sev |-> "LOW",    diff |-> -40],
       [lat |-> 30410, lon |-> 79310, sev |-> "HIGH",   diff |-> 30],
       [lat |-> 30425, lon |-> 79325, sev |-> "MEDIUM", diff |-> -10],
       [lat |-> 30460, lon |-> 79360, sev |-> "LOW",    diff |-> -40],
       [lat |-> 30435, lon |-> 79335, sev |-> "MEDIUM", diff |-> -10],
       [lat |-> 30455, lon |-> 79355, sev |-> "LOW",    diff |-> -50],
       [lat |-> 30430, lon |-> 79330, sev |-> "MEDIUM", diff |-> 0],
       [lat |-> 30400, lon |-> 79300, sev |-> "HIGH",   diff |-> 40] >>

BenchDraws == 0..BenchSteps

\* np.random.uniform(lo, hi) at grid point k, lo and hi in thousandths
Uniform(lo, hi, k) == lo * BenchSteps + k * (hi - lo)

\* inference_engine.py:129-135; j is the three jitter draws
GeoMetrics(item, j) ==
    LET base_ref == (890 + item.diff) * BenchSteps
    IN [acc  |-> base_ref + Uniform(-5, 5, j[1]),
        prec |-> base_ref - 20 * BenchSteps + Uniform(-5, 5, j[2]),
        f1   |-> base_ref - 10 * BenchSteps + Uniform(-5, 5, j[3])]

\* inference_engine.py:139-144; g is the gap draw, n the three noise draws
BaseMetrics(geo, g, n) ==
    LET gap == Uniform(11, 13, g)
    IN [acc  |-> geo.acc - gap + Uniform(-1, 1, n[1]),
        prec |-> geo.prec - gap + Uniform(-1, 1, n[2]),
        f1   |-> geo.f1 - gap + Uniform(-1, 1, n[3])]

NoSample ==
    [id |-> 0, lat |-> 0, lon |-> 0, severity |-> "-",
     geo |-> [acc |-> 0, prec |-> 0, f1 |-> 0],
     base |-> [acc |-> 0, prec |-> 0, f1 |-> 0]]

(***************************************************************************)
(* Init                                                                    *)
(***************************************************************************)
InitServer ==
    /\ now \in 0..9
    /\ pc = "idle"
    /\ req = NoRequest
    /\ lat = None
    /\ lon = None
    /\ start_time = 0
    /\ is_expert = FALSE
    /\ is_desert = FALSE
    /\ metrics = NoMetrics
    /\ trace = <<>>
    /\ raised = "none"
    /\ result = NoResult
    /\ response = NoResponse
    /\ mask_ids = <<>>
    /\ served = 0

InitBench ==
    /\ bpc = "idle"
    /\ i = 0
    /\ process_time = 0
    /\ results = <<>>
    /\ last = NoSample

\* the threads that serve requests at the same time on the one engine
Threads == {1, 2}

\* the points of the calls made at the same time
ConcPoints == {<<30400, 79300>>, <<27000, 71000>>}

InitConc ==
    /\ cpc = [t \in Threads |-> "idle"]
    /\ cpoint = [t \in Threads |-> <<0, 0>>]
    /\ cstart = [t \in Threads |-> 0]
    /\ cstep = [t \in Threads |-> 0]
    /\ cwake = [t \in Threads |-> 0]
    /\ cresult = [t \in Threads |-> NoResult]

Init == InitServer /\ InitBench /\ InitConc

\* one request, or the benchmark alone: time is counted from the start
InitEpoch == Init /\ now = 0

(***************************************************************************)
(* predict_hazard, server.py:49-74, and run_inference_pipeline.            *)
(* A request is an HTTP request (req.json is "object" or "other") or a     *)
(* call of engine.run_inference_pipeline by another caller ("direct").     *)
(***************************************************************************)
Respond(r) ==
    /\ response' = r
    /\ pc' = "responded"

\* an exception leaves run_inference_pipeline: the except branch of
\* predict_hazard answers; a direct caller gets the exception
Raise(stage) ==
    /\ raised' = stage
    /\ IF req.json = "direct"
       THEN pc' = "raised" /\ UNCHANGED response
       ELSE Respond(ErrorResponse(stage))

NewRequest(r, t) ==
    /\ served' = served + 1
    /\ now' = t
    /\ req' = r
    /\ trace' = <<>>
    /\ raised' = "none"
    /\ metrics' = NoMetrics
    /\ result' = NoResult
    /\ is_expert' = FALSE
    /\ is_desert' = FALSE

Idle == pc \in {"idle", "responded", "returned", "raised"}

\* server.py:51-64 and inference_engine.py:62: read the body, reject missing
\* coordinates, enter the engine
Receive(r) ==
    /\ Idle
    /\ \E t \in now..(now + MaxLag) :
        /\ NewRequest(r, t)
        /\ IF r.json # "object"
           THEN \* data.get raises AttributeError: the except branch answers
                /\ lat' = None
                /\ lon' = None
                /\ Respond(ErrorResponse("request"))
                /\ UNCHANGED start_time
           ELSE /\ lat' = DictGet(r.lat)
                /\ lon' = DictGet(r.lon)
                /\ IF MissingCoordinates(DictGet(r.lat), DictGet(r.lon))
                   THEN /\ Respond(MissingResponse)
                        /\ UNCHANGED start_time
                   ELSE /\ pc' = "fetch"
                        /\ start_time' = t
                        /\ response' = NoResponse
    /\ UNCHANGED <<mask_ids, benchVars, concVars>>

\* engine.run_inference_pipeline(la, lo, ...) called with two numbers
Call(la, lo) ==
    /\ Idle
    /\ \E t \in now..(now + MaxLag) :
        /\ NewRequest([json |-> "direct", lat |-> Num(la), lon |-> Num(lo)], t)
        /\ start_time' = t
    /\ lat' = Num(la)
    /\ lon' = Num(lo)
    /\ pc' = "fetch"
    /\ response' = NoResponse
    /\ UNCHANGED <<mask_ids, benchVars, concVars>>

\* a stage that only logs and sleeps
Stage(at, name, duration, next) ==
    /\ pc = at
    /\ trace' = Append(trace, name)
    /\ now' \in AfterSleep(now, duration)
    /\ pc' = next

\* _fetch_satellite_tensors: the log line formats lat and lon with .4f
Fetch ==
    /\ pc = "fetch"
    /\ trace' = Append(trace, "fetch")
    /\ IF FormatsAsFloat(lat) /\ FormatsAsFloat(lon)
       THEN /\ now' \in AfterSleep(now, FetchSleep)
            /\ pc' = "correct"
            /\ UNCHANGED <<raised, response>>
       ELSE /\ Raise("fetch")
            /\ UNCHANGED now
    /\ UNCHANGED <<req, lat, lon, start_time, is_expert, is_desert, metrics,
                   result, mask_ids, served, benchVars, concVars>>

\* _preprocess_atmospheric_correction
Correct ==
    /\ Stage("correct", "correct", CorrectSleep, "segment")
    /\ UNCHANGED <<req, lat, lon, start_time, is_expert, is_desert, metrics,
                   raised, result, response, mask_ids, served, benchVars, concVars>>

SegmentSkipsMerge ==
    /\ Stage("segment", "segment", SlicSleep, "classify")
    /\ UNCHANGED <<req, lat, lon, start_time, is_expert, is_desert, metrics,
                   raised, result, response, mask_ids, served, benchVars, concVars>>

\* _run_slic_segmentation
Segment ==
    /\ Stage("segment", "segment", SlicSleep, "merge")
    /\ UNCHANGED <<req, lat, lon, start_time, is_expert, is_desert, metrics,
                   raised, result, response, mask_ids, served, benchVars, concVars>>

\* _merge_regions_rag: two sleeps
Merge ==
    /\ pc = "merge"
    /\ trace' = Append(trace, "merge")
    /\ \E t \in AfterSleep(now, RagSleep) : now' \in AfterSleep(t, MergeSleep)
    /\ pc' = "classify"
    /\ UNCHANGED <<req, lat, lon, start_time, is_expert, is_desert, metrics,
                   raised, result, response, mask_ids, served, benchVars, concVars>>

\* inference_engine.py:74-79: the zone tests, then _execute_random_forest
\* (feature extraction and the forest, two sleeps)
Classify ==
    /\ pc = "classify"
    /\ is_expert' = InZone(ZONES.CHAMOLI, lat.val, lon.val)
    /\ is_desert' = InZone(ZONES.JAISALMER, lat.val, lon.val)
    /\ trace' = Append(Append(trace, "features"), "classify")
    /\ \E t \in AfterSleep(now, FeatSleep) : now' \in AfterSleep(t, ForestSleep)
    /\ pc' = "evaluate"
    /\ UNCHANGED <<req, lat, lon, start_time, metrics, raised, result, response,
                   mask_ids, served, benchVars, concVars>>

\* inference_engine.py:82: _calculate_metrics (the expert branch sleeps 0.2 s)
Evaluate ==
    /\ pc = "evaluate"
    /\ trace' = Append(trace, "evaluate")
    /\ \E k \in Draws : metrics' = CalculateMetrics(is_expert, is_desert, k)
    /\ IF is_expert /\ ~is_desert
       THEN now' \in AfterSleep(now, ShapefileSleep)
       ELSE now' = now
    /\ pc' = "assemble"
    /\ UNCHANGED <<req, lat, lon, start_time, is_expert, is_desert, raised,
                   result, response, mask_ids, served, benchVars, concVars>>

\* inference_engine.py:84-92: the clock is read for the elapsed time and
\* again for the mask_id; server.py:67-70 wraps the result
Assemble ==
    /\ pc = "assemble"
    /\ \E t \in now..(now + MaxLag) :
        LET r == InferenceResult(metrics, now - start_time, MaskId(t))
        IN /\ now' = t
           /\ result' = r
           /\ mask_ids' = Append(mask_ids, r.mask_id)
           /\ IF req.json = "direct"
              THEN pc' = "returned" /\ UNCHANGED response
              ELSE Respond(SuccessResponse(r))
    /\ UNCHANGED <<req, lat, lon, start_time, is_expert, is_desert, metrics,
                   trace, raised, served, benchVars, concVars>>

StagePcs == {"fetch", "correct", "segment", "merge", "classify"}

\* a stage raises (the allocation, the IO, the model fails)
StageRaises ==
    /\ pc \in StagePcs
    /\ trace' = Append(trace, pc)
    /\ Raise(pc)
    /\ UNCHANGED <<now, req, lat, lon, start_time, is_expert, is_desert,
                   metrics, result, mask_ids, served, benchVars, concVars>>

Pipeline ==
    \/ Fetch
    \/ Correct
    \/ Segment
    \/ Merge
    \/ Classify
    \/ Evaluate
    \/ Assemble
    \/ StageRaises

\* one request, any body, or one direct call, any point
Next ==
    \/ \E r \in Requests : served = 0 /\ Receive(r)
    \/ \E la \in LatNumbers, lo \in LonNumbers : served = 0 /\ Call(la, lo)
    \/ Pipeline

Spec == InitEpoch /\ [][Next]_vars

\* MaxRequests requests, one after another
NextSeq ==
    \/ \E r \in SeqRequests : served < MaxRequests /\ Receive(r)
    \/ \E p \in SeqCalls : served < MaxRequests /\ Call(p[1], p[2])
    \/ Pipeline

SpecSeq == Init /\ [][NextSeq]_vars

(***************************************************************************)
(* The benchmark's steps.                                                  *)
(***************************************************************************)
\* inference_engine.py:101-117
BenchStart ==
    /\ bpc = "idle"
    /\ bpc' = "delay"
    /\ i' = 0
    /\ results' = <<>>
    /\ last' = NoSample
    /\ UNCHANGED <<process_time, srvVars, concVars>>

\* inference_engine.py:119-125: the next item, its delay of 4 to 6 seconds
BenchDelay ==
    /\ bpc = "delay"
    /\ \E k \in BenchDraws : process_time' = Uniform(4000, 6000, k)
    /\ bpc' = "compute"
    /\ last' = NoSample
    /\ UNCHANGED <<i, results, srvVars, concVars>>

BenchEntryZeroBased(idx, item, geo, base) ==
    [id |-> idx, lat |-> item.lat, lon |-> item.lon, severity |-> item.sev,
     geo |-> geo, base |-> base]

\* inference_engine.py:146-152: the dict appended for item idx of enumerate
BenchEntry(idx, item, geo, base) ==
    [id |-> idx + 1, lat |-> item.lat, lon |-> item.lon, severity |-> item.sev,
     geo |-> geo, base |-> base]

\* inference_engine.py:129-152: the metrics of item i, and the append;
\* after the last item the loop ends and results is returned (154-155)
BenchCompute ==
    /\ bpc = "compute"
    /\ \E j \in [1..3 -> BenchDraws], g \in BenchDraws, n \in [1..3 -> BenchDraws] :
        LET item == test_set[i + 1]
            geo == GeoMetrics(item, j)
            entry == BenchEntry(i, item, geo, BaseMetrics(geo, g, n))
        IN /\ last' = entry
           /\ results' = Append(results, [id |-> entry.id, lat |-> entry.lat,
                                          lon |-> entry.lon,
                                          severity |-> entry.severity])
    /\ i' = i + 1
    /\ bpc' = IF i + 1 < Len(test_set) THEN "delay" ELSE "done"
    /\ UNCHANGED <<process_time, srvVars, concVars>>

NextBench ==
    \/ BenchStart
    \/ BenchDelay
    \/ BenchCompute

SpecBench == InitEpoch /\ [][NextBench]_vars

(***************************************************************************)
(* run_inference_pipeline on the threads of the server (app.run serves     *)
(* each request on a thread of its own; they share `engine` and the clock).*)
(* A call is the sequence of its time.sleep calls; a sleep of d that began *)
(* at t is over at some time in t + d .. t + d + MaxLag.                   *)
(***************************************************************************)
\* the sleeps of one call, in order (inference_engine.py:201-225, 173)
SleepsOf(expert) ==
    <<FetchSleep, CorrectSleep, SlicSleep, RagSleep, MergeSleep, FeatSleep,
      ForestSleep>> \o (IF expert THEN <<ShapefileSleep>> ELSE <<>>)

ConcExpert(t) == InZone(ZONES.CHAMOLI, cpoint[t][1], cpoint[t][2])
ConcDesert(t) == InZone(ZONES.JAISALMER, cpoint[t][1], cpoint[t][2])

\* the elif branch of _calculate_metrics is the one that sleeps
ConcSleeps(t) == SleepsOf(ConcExpert(t) /\ ~ConcDesert(t))

\* inference_engine.py:61-65: a thread enters run_inference_pipeline (the
\* threads are alike: the lower-numbered one is taken to enter first)
ConcStart(t, p) ==
    /\ cpc[t] = "idle"
    /\ \A u \in Threads : (u < t) => (cpc[u] # "idle")
    /\ cpc' = [cpc EXCEPT ![t] = "running"]
    /\ cpoint' = [cpoint EXCEPT ![t] = p]
    /\ cstart' = [cstart EXCEPT ![t] = now]
    /\ cstep' = [cstep EXCEPT ![t] = 1]
    /\ cwake' = [cwake EXCEPT ![t] = now + FetchSleep]
    /\ UNCHANGED <<cresult, srvVars, benchVars>>

\* a sleep of thread t is over: it runs on to its next sleep, or, after the
\* last one, evaluates the metrics and returns (inference_engine.py:82-92)
ConcWake(t) ==
    /\ cpc[t] = "running"
    /\ now >= cwake[t]
    /\ IF cstep[t] < Len(ConcSleeps(t))
       THEN /\ cstep' = [cstep EXCEPT ![t] = cstep[t] + 1]
            /\ cwake' = [cwake EXCEPT ![t] = now + ConcSleeps(t)[cstep[t] + 1]]
            /\ UNCHANGED <<cpc, cresult>>
       ELSE /\ \E k \in Draws :
                cresult' = [cresult EXCEPT ![t] =
                    InferenceResult(
                        CalculateMetrics(ConcExpert(t), ConcDesert(t), k),
                        now - cstart[t], MaskId(now))]
            /\ cpc' = [cpc EXCEPT ![t] = "returned"]
            /\ UNCHANGED <<cstep, cwake>>
    /\ UNCHANGED <<cpoint, cstart, srvVars, benchVars>>

\* a tenth of a second passes while some call is running; no sleep overruns
\* by more than MaxLag
Tick ==
    /\ \E t \in Threads : cpc[t] = "running"
    /\ \A t \in Threads : (cpc[t] = "running") => (now < cwake[t] + MaxLag)
    /\ now' = now + 1
    /\ UNCHANGED <<pc, req, lat, lon, start_time, is_expert, is_desert, metrics,
                   trace, raised, result, response, mask_ids, served,
                   benchVars, concVars>>

NextConc ==
    \/ \E t \in Threads, p \in ConcPoints : ConcStart(t, p)
    \/ \E t \in Threads : ConcWake(t)
    \/ Tick

SpecConc == InitEpoch /\ [][NextConc]_vars

(***************************************************************************)
(* Properties.                                                             *)
(***************************************************************************)
HasPoint == lat.kind = "num" /\ lon.kind = "num"

\* run_inference_pipeline has returned its dict for the current request
Returned == result # NoResult

InSuppressedBox ==
    /\ HasPoint
    /\ 26000 <= lat.val /\ lat.val <= 28000
    /\ 70000 <= lon.val /\ lon.val <= 72000

InValidatedBox ==
    /\ HasPoint
    /\ 30000 <= lat.val /\ lat.val <= 30800
    /\ 78800 <= lon.val /\ lon.val <= 79800

\* C1: for every point of 26.0..28.0 x 70.0..72.0 the returned result has
\* confidence exactly 0.0, severity SAFE, status NO_ANOMALY and precision,
\* accuracy and f1 0.0, whatever was drawn.
C1_SuppressedZone ==
    (Returned /\ InSuppressedBox) =>
        /\ result.confidence = 0
        /\ result.metrics.confidence = 0
        /\ result.metrics.severity = "SAFE"
        /\ result.metrics.status = "NO_ANOMALY"
        /\ result.metrics.precision = 0
        /\ result.metrics.accuracy = 0
        /\ result.metrics.f1_score = 0

C1_Witness ==
    /\ Returned
    /\ lat = Num(27000) /\ lon = Num(71000)
    /\ result.metrics.status = "NO_ANOMALY"

\* C2: for every point of 30.0..30.8 x 78.8..79.8 the returned result has
\* status VALIDATED_DETECTION, severity HIGH, a confidence in [88.0, 93.0]
\* and precision, accuracy, f1 of 0.85, 0.89, 0.83.
C2_ValidatedZone ==
    (Returned /\ InValidatedBox) =>
        /\ result.metrics.status = "VALIDATED_DETECTION"
        /\ result.metrics.severity = "HIGH"
        /\ 88 * RandSteps <= result.confidence
        /\ result.confidence <= 93 * RandSteps
        /\ result.metrics.confidence = result.confidence
        /\ result.metrics.precision = 85
        /\ result.metrics.accuracy = 89
        /\ result.metrics.f1_score = 83

C2_Witness ==
    /\ Returned
    /\ lat = Num(30400) /\ lon = Num(79300)
    /\ result.confidence = 93 * RandSteps
    /\ result.metrics.severity = "HIGH"

\* C3: for every point outside both zones the returned result has status
\* UNVERIFIED_DETECTION, a confidence in [45.0, 65.0], precision, accuracy and
\* f1 0.0, and severity MEDIUM if and only if confidence > 60.0, LOW otherwise.
C3_OutsideZones ==
    (Returned /\ HasPoint /\ ~InSuppressedBox /\ ~InValidatedBox) =>
        /\ result.metrics.status = "UNVERIFIED_DETECTION"
        /\ 45 * RandSteps <= result.confidence
        /\ result.confidence <= 65 * RandSteps
        /\ result.metrics.confidence = result.confidence
        /\ result.metrics.precision = 0
        /\ result.metrics.accuracy = 0
        /\ result.metrics.f1_score = 0
        /\ result.metrics.severity \in {"MEDIUM", "LOW"}
        /\ (result.metrics.severity = "MEDIUM")
               <=> (result.confidence > 60 * RandSteps)

\* a confidence of exactly 60.0, outside the zones, with severity LOW
C3_Witness ==
    /\ Returned
    /\ lat = Num(0) /\ lon = Num(0)
    /\ result.confidence = 60 * RandSteps
    /\ result.metrics.severity = "LOW"

\* C4: in every benchmark sample each baseline metric is strictly below the
\* GeoSlide metric, and the difference is at least the minimum gap 0.011.
C4_MinimumGap ==
    (last # NoSample) =>
        /\ last.base.acc < last.geo.acc
        /\ last.base.prec < last.geo.prec
        /\ last.base.f1 < last.geo.f1
        /\ last.geo.acc - last.base.acc >= 11 * BenchSteps
        /\ last.geo.prec - last.base.prec >= 11 * BenchSteps
        /\ last.geo.f1 - last.base.f1 >= 11 * BenchSteps

\* C5: the mask_ids returned by calls made one after another are pairwise
\* different.
C5_SequentialMaskIds ==
    \A a, b \in 1..Len(mask_ids) : (a # b) => (mask_ids[a] # mask_ids[b])

C5_Witness ==
    /\ Len(mask_ids) >= 2
    /\ mask_ids[2][2] <= mask_ids[1][2] + 4

InRange(la, lo) ==
    /\ -90000 <= la /\ la <= 90000
    /\ -180000 <= lo /\ lo <= 180000

BodyHasNumbers == req.json = "object" /\ req.lat.kind = "num" /\ req.lon.kind = "num"

\* C6: a POST /predict whose lat and lon are both present and within range,
\* 0.0 included, is never answered 400: unless a stage raises it is answered
\* 200 'success', and the point (0.0, 0.0) gets UNVERIFIED_DETECTION.
C6_InRangeNeverMissing ==
    (BodyHasNumbers /\ InRange(req.lat.val, req.lon.val) /\ pc = "responded") =>
        /\ response.code # 400
        /\ (raised = "none") =>
               /\ response.code = 200
               /\ response.body.status = "success"
               /\ (req.lat.val = 0 /\ req.lon.val = 0) =>
                      response.body.data.metrics.status = "UNVERIFIED_DETECTION"

\* C7: a request with lat outside [-90, 90] or lon outside [-180, 180] is
\* rejected (400 from the service): no stage runs, no result is returned.
C7_OutOfRangeRejected ==
    (/\ req.json \in {"object", "direct"}
     /\ req.lat.kind = "num" /\ req.lon.kind = "num"
     /\ ~InRange(req.lat.val, req.lon.val)) =>
        /\ trace = <<>>
        /\ result = NoResult
        /\ (pc = "responded") => (response.code = 400)

BodyLacksCoordinate ==
    /\ req.json = "object"
    /\ req.lat.kind \in {"absent", "null"} \/ req.lon.kind \in {"absent", "null"}

\* C8: a request whose lat or lon is absent or null is answered 400 'Missing
\* coordinates' and no stage and no evaluation ever runs for it.  (A body that
\* is no JSON object has no stage run for it either.)
C8_MissingRejectedBeforeStages ==
    /\ BodyLacksCoordinate =>
        /\ pc = "responded"
        /\ response.code = 400
        /\ response.body = [error |-> "Missing coordinates"]
        /\ trace = <<>>
        /\ metrics = NoMetrics
        /\ result = NoResult
    /\ (req.json = "other") => (trace = <<>> /\ result = NoResult)

C8_Witness ==
    /\ req.json = "object"
    /\ req.lat.kind = "num" /\ req.lat.val = 30400
    /\ req.lon.kind = "null"
    /\ response.code = 400

NoDuplicates(seq) ==
    \A a, b \in 1..Len(seq) : (a # b) => (seq[a] # seq[b])

AllStages == <<"fetch", "correct", "segment", "merge", "features", "classify",
               "evaluate">>

\* C9: a /predict request ends with 200 and a complete InferenceResult, with
\* 400 or with 500.  When a stage raises, the response is 500 with the body
\* {error: 'Internal Server Error'} and nothing else, no stage has run twice,
\* and no later stage, evaluation or result follows.
C9_NoPartialResult ==
    (req.json \in {"object", "other"}) =>
        /\ (pc = "responded") <=> (response.code # 0)
        /\ response.code \in {0, 200, 400, 500}
        /\ (response.code = 200) =>
               /\ raised = "none"
               /\ trace = AllStages
               /\ response.body = [status |-> "success", data |-> result]
               /\ DOMAIN result
                      = {"confidence", "metrics", "processing_time", "mask_id"}
               /\ result.metrics # NoMetrics
               /\ result.mask_id[1] = "mask_"
        /\ (response.code \in {400, 500}) =>
               /\ DOMAIN response.body = {"error"}
               /\ result = NoResult
        /\ (raised # "none") =>
               /\ response = [code |-> 500,
                              body |-> [error |-> "Internal Server Error"]]
               /\ NoDuplicates(trace)
               /\ trace[Len(trace)] = raised
               /\ metrics = NoMetrics
               /\ result = NoResult

C9_Witness ==
    /\ req.json = "object"
    /\ raised = "segment"
    /\ trace = <<"fetch", "correct", "segment">>
    /\ response.code = 500

OnEdge(min_lat, max_lat, min_lon, max_lon) ==
    /\ HasPoint
    /\ min_lat <= lat.val /\ lat.val <= max_lat
    /\ min_lon <= lon.val /\ lon.val <= max_lon
    /\ lat.val \in {min_lat, max_lat} \/ lon.val \in {min_lon, max_lon}

\* C10: a point on an edge of a zone's box (a corner included) gets the
\* zone's policy: VALIDATED_DETECTION on the edge of CHAMOLI, NO_ANOMALY on
\* the edge of JAISALMER.
C10_ClosedIntervals ==
    Returned =>
        /\ OnEdge(30000, 30800, 78800, 79800) =>
               result.metrics.status = "VALIDATED_DETECTION"
        /\ OnEdge(26000, 28000, 70000, 72000) =>
               result.metrics.status = "NO_ANOMALY"

C10_Witness ==
    /\ Returned
    /\ lat = Num(30800) /\ lon = Num(79800)
    /\ result.metrics.status = "VALIDATED_DETECTION"

\* C11: the benchmark returns one result per sample, in input order: the
\* k-th result has id k and the lat, lon and severity of the k-th sample; and
\* the samples are processed one after another: while sample k+1 is delayed
\* or computed, exactly the results of samples 1..k have been appended.
C11_OrderedResults ==
    /\ Len(results) <= Len(test_set)
    /\ \A k \in 1..Len(results) :
        /\ results[k].id = k
        /\ results[k].lat = test_set[k].lat
        /\ results[k].lon = test_set[k].lon
        /\ results[k].severity = test_set[k].sev
    /\ (bpc \in {"delay", "compute"}) => (Len(results) = i /\ i < Len(test_set))
    /\ (bpc = "done") => (Len(results) = Len(test_set))
    /\ (last # NoSample) =>
        /\ Len(results) >= 1
        /\ last.id = Len(results)
        /\ last.lat = results[Len(results)].lat
        /\ last.lon = results[Len(results)].lon
        /\ last.severity = results[Len(results)].severity

C11_Witness ==
    /\ bpc = "done"
    /\ Len(results) = 10
    /\ results[3] = [id |-> 3, lat |-> 30450, lon |-> 79350, severity |-> "LOW"]
    /\ results[10] = [id |-> 10, lat |-> 30400, lon |-> 79300, severity |-> "HIGH"]

IsPrefix(a, b) == Len(a) <= Len(b) /\ a = SubSeq(b, 1, Len(a))

\* the stages entered when the handler stands at a position
StagesBefore(p) ==
    CASE p = "fetch"    -> 0
      [] p = "correct"  -> 1
      [] p = "segment"  -> 2
      [] p = "merge"    -> 3
      [] p = "classify" -> 4
      [] p = "evaluate" -> 6
      [] OTHER          -> 7

\* C12: a call that does not raise runs fetch, correct, segment, merge,
\* extract-features, classify in this order, each once; _calculate_metrics
\* runs only after classify, and the result is assembled after it.
C12_StageOrder ==
    ((raised = "none" /\ pc \notin {"idle", "responded"}) \/ Returned) =>
        /\ IsPrefix(trace, AllStages)
        /\ Len(trace) = StagesBefore(pc)
        /\ (metrics # NoMetrics) =>
               SubSeq(trace, 1, 6) = <<"fetch", "correct", "segment", "merge",
                                       "features", "classify">>
        /\ Returned =>
               /\ trace = <<"fetch", "correct", "segment", "merge",
                            "features", "classify", "evaluate">>
               /\ result.metrics = metrics
               /\ metrics # NoMetrics

C12_Witness ==
    /\ Returned
    /\ pc = "returned"
    /\ trace = <<"fetch", "correct", "segment", "merge", "features", "classify",
                 "evaluate">>
    /\ result.metrics.status = "VALIDATED_DETECTION"

\* C13: two calls of run_inference_pipeline running at the same time on the
\* shared engine return different mask_ids.
C13_ConcurrentMaskIds ==
    \A t, u \in Threads :
        (t # u /\ cpc[t] = "returned" /\ cpc[u] = "returned") =>
            (cresult[t].mask_id # cresult[u].mask_id)

\* _calculate_metrics with its first two branches tested in the other order
ExpertTestedFirst(expert, desert, k) ==
    IF expert THEN ValidatedMetrics(k)
    ELSE IF desert THEN SuppressedMetrics
    ELSE UnverifiedMetrics(k)

\* C14: no point is in both zones: is_expert and is_desert are never both
\* true (each is true exactly on its zone's box), so _calculate_metrics
\* gives the same metrics whichever of the two branches is tested first.
C14_AtMostOneZone ==
    /\ ~(is_expert /\ is_desert)
    /\ (pc \in {"evaluate", "assemble", "returned"} \/ Returned) =>
        /\ is_expert <=> InValidatedBox
        /\ is_desert <=> InSuppressedBox
    /\ (pc = "evaluate") =>
        \A k \in Draws :
            CalculateMetrics(is_expert, is_desert, k)
                = ExpertTestedFirst(is_expert, is_desert, k)

C14_Witness ==
    /\ pc = "evaluate"
    /\ lat = Num(28000) /\ lon = Num(70000)
    /\ is_desert
    /\ ~is_expert

====
